---- MODULE Spec2Model ----
(***************************************************************************)
(* WrappedDynamoDbClient (src/lib/WrappedDynamoDbClient.js): the chunked   *)
(* bulk write / bulk delete with backoff (putItems, deleteItems) and the   *)
(* table purge loop (purgeItems), run against a store that answers each    *)
(* batchWrite with a set of unprocessed requests or an error, and each     *)
(* scan with a page or an error.                                           *)
(*                                                                         *)
(* One step of the model is one turn of the JavaScript event loop: the     *)
(* call itself (up to the first await of every chunk), or the arrival of   *)
(* one store response / one timer, followed by every continuation that     *)
(* runs before the next await.                                             *)
(*                                                                         *)
(* JavaScript values: a plain object is the record of its attributes; a    *)
(* string is [str |-> s]; an array is [array |-> <<...>>] where its type   *)
(* is tested by the code and a bare sequence where it is not; undefined is *)
(* Undefined.                                                              *)
(***************************************************************************)
EXTENDS Integers, Sequences, FiniteSets

\* ---------------------------------------------------------------- bounds
\* Longest list handed to putItems / deleteItems, and size of a full table.
MaxItems == 26
\* batchWrite calls one chunk may issue before the store stops throttling it.
MaxAttempts == 3
\* scans one purgeItems call may issue before the store returns whole pages.
MaxScans == 3

\* ------------------------------------------------------ program constants
\* _.chunk(keys, 25)
ChunkSize == 25
\* const initialDelay = 100
initialDelay == 100

\* ------------------------------------------------------------- JS values
Undefined == [primitive |-> "undefined"]
Str(s) == [str |-> s]
Arr(s) == [array |-> s]
IsString(x) == "str" \in DOMAIN x
IsArray(x) == "array" \in DOMAIN x
IsPlainObject(x) == DOMAIN x \cap {"str", "array", "primitive"} = {}
\* truthiness of a value that is an object or undefined
Truthy(x) == "primitive" \notin DOMAIN x
\* {} : the object with no attribute
EmptyObject == <<>>

Min(a, b) == IF a < b THEN a ELSE b
Last(s) == s[Len(s)]

\* _.pick(item, keys)
Pick(item, keys) ==
  LET names == {keys[i].str : i \in 1..Len(keys)} \cap DOMAIN item
  IN  [a \in names |-> item[a]]

\* _.chunk that drops a trailing chunk shorter than size
Chunk_dropsRemainder(array, size) ==
  [i \in 1..(Len(array) \div size) |->
     SubSeq(array, (i - 1) * size + 1, i * size)]

\* _.chunk with chunks one element too long
Chunk_oneMore(array, size) ==
  [i \in 1..((Len(array) + size) \div (size + 1)) |->
     SubSeq(array, (i - 1) * (size + 1) + 1, Min(i * (size + 1), Len(array)))]

\* _.chunk(array, size)
Chunk(array, size) ==
  [i \in 1..((Len(array) + size - 1) \div size) |->
     SubSeq(array, (i - 1) * size + 1, Min(i * size, Len(array)))]

\* ------------------------------------------------------------ the table
TableName == "T"
KeyNames == <<Str("entityPK"), Str("entitySK")>>
Item(i) == [entityPK |-> "pk", entitySK |-> i, data |-> "d"]
Key(i) == [entityPK |-> "pk", entitySK |-> i]
ItemSeq(n) == [i \in 1..n |-> Item(i)]
KeySeq(n) == [i \in 1..n |-> Key(i)]
\* every item the table can hold, in scan order
Universe == ItemSeq(MaxItems)
IsItem(x) == \E i \in 1..Len(Universe) : x = Universe[i]

VARIABLES
  table,      \* the items stored in table TableName
  table0,     \* history: the items stored when the top-level call was made
  lastCall,   \* history: how the call before this one ended, [status, result]
  call,       \* the top-level call: [name, tableName, arg]
  status,     \* "idle" | "running" | "returned" | "thrown"
  result,     \* what the top-level call returned, or the error it threw
  bulk,       \* the putItems/deleteItems call under way: [kind, tableName, chunks]
  task,       \* per chunk: [pc, chunk, delay, response, reason]
  results,    \* what the last putItems/deleteItems call returned
  inflight,   \* batchWrite requests the store has not answered: [chunk, requests]
  timers,     \* pending setTimeout timers: [chunk, ms]
  calls,      \* history, per chunk: the batchWrite calls issued, [requests, waited]
  replies,    \* history, per chunk: what the store answered
  finished,   \* history: the chunks in the order their loops ended
  launched,   \* history: the chunks in the order chunks.map started them
  purge,      \* purgeItems' locals: [purged, lastEvaluatedKey, items, keys]
  scanning,   \* scan requests the store has not answered (their options)
  scans,      \* history: the scans issued, [options, answer]
  transacts   \* history: the transactWrite calls issued, [TransactItems, response]

bulkVars == <<bulk, task, results, inflight, timers, calls, replies, finished,
              launched>>
purgeVars == <<purge, scanning, scans>>
callVars == <<call, status, result>>
vars == <<table, table0, lastCall, call, status, result, bulk, task, results,
          inflight, timers, calls, replies, finished, launched, purge, scanning,
          scans, transacts>>

\* ------------------------------------------------------------ validation
\* a validator that takes any string, the empty one too
ValidTableName_anyString(input) == IsString(input)

\* #validateTableName: _.isString(input) && input.length
ValidTableName(input) == IsString(input) /\ input.str # ""
\* a validator that also refuses elements shaped as write requests
ValidItems_noRequests(input) ==
  /\ IsArray(input)
  /\ \A i \in 1..Len(input.array) :
       /\ IsPlainObject(input.array[i])
       /\ DOMAIN input.array[i] \cap {"PutRequest", "DeleteRequest"} = {}

\* #validateItems: _.isArray(input) && _.every(input, _.isPlainObject)
ValidItems(input) ==
  IsArray(input) /\ \A i \in 1..Len(input.array) : IsPlainObject(input.array[i])
\* a validator of keys without the test of keys.length
ValidKeys_allowsEmpty(keys) ==
  IsArray(keys) /\ \A i \in 1..Len(keys.array) : IsString(keys.array[i])

\* purgeItems' validator of keys
ValidKeys(keys) ==
  IsArray(keys) /\ Len(keys.array) # 0
  /\ \A i \in 1..Len(keys.array) : IsString(keys.array[i])
\* #validateParam's throw: new Error({ message, value })
ValidationError == [name |-> "Error", message |-> "[object Object]"]
\* what the store throws
StoreErrors == {[name |-> "StoreError", message |-> "batchWrite failed"]}
ScanErrors == {[name |-> "StoreError", message |-> "scan failed"]}

\* ------------------------------------------------- one chunk's retry loop
\* chunk.map((item) => ({ PutRequest: { Item: item } }))
PutRequests(chunk) ==
  [i \in 1..Len(chunk) |-> [PutRequest |-> [Item |-> chunk[i]]]]
\* chunk.map((key) => ({ DeleteRequest: { Key: key } }))
DeleteRequests(chunk) ==
  [i \in 1..Len(chunk) |-> [DeleteRequest |-> [Key |-> chunk[i]]]]
Requests(kind, chunk) ==
  IF kind = "put" THEN PutRequests(chunk) ELSE DeleteRequests(chunk)

\* response?.UnprocessedItems?.[tableName] ?? []
Unprocessed(response, tableName) ==
  IF "UnprocessedItems" \notin DOMAIN response THEN <<>>
  ELSE IF tableName \notin DOMAIN response.UnprocessedItems THEN <<>>
  ELSE response.UnprocessedItems[tableName]

\* a backoff that never grows
NextDelay_fixed(delay) == initialDelay

\* delay = delay ? delay * 2 : initialDelay
NextDelay(delay) == IF delay # 0 THEN delay * 2 ELSE initialDelay

\* let delay = initialDelay
NewTask_delayed(chunk) ==
  [pc |-> "start", chunk |-> chunk, delay |-> initialDelay,
   response |-> Undefined, reason |-> Undefined]

\* the async arrow function's locals when chunks.map calls it
NewTask(chunk) ==
  [pc |-> "start", chunk |-> chunk, delay |-> 0,
   response |-> Undefined, reason |-> Undefined]

\* while (chunk.length > 1)
LoopHead_stopsAtOne(t) ==
  IF Len(t.chunk) <= 1 THEN [t EXCEPT !.pc = "fulfilled"]
  ELSE IF t.delay # 0 THEN [t EXCEPT !.pc = "setTimeout"]
  ELSE [t EXCEPT !.pc = "batchWrite"]

\* a loop that gives up, with an error, once the delay has reached 200 ms
LoopHead_capped(t) ==
  IF Len(t.chunk) = 0 THEN [t EXCEPT !.pc = "fulfilled"]
  ELSE IF t.delay > initialDelay
  THEN [t EXCEPT !.pc = "rejected",
                 !.reason = [name |-> "Error", message |-> "too many retries"]]
  ELSE IF t.delay # 0 THEN [t EXCEPT !.pc = "setTimeout"]
  ELSE [t EXCEPT !.pc = "batchWrite"]

\* a loop without "if (delay) await setTimeout(delay)"
LoopHead_noWait(t) ==
  IF Len(t.chunk) = 0 THEN [t EXCEPT !.pc = "fulfilled"]
  ELSE [t EXCEPT !.pc = "batchWrite"]

\* while (chunk.length) { if (delay) await setTimeout(delay); ... batchWrite
\* ... } return response : from the loop test to the next await or the return
LoopHead(t) ==
  IF Len(t.chunk) = 0 THEN [t EXCEPT !.pc = "fulfilled"]
  ELSE IF t.delay # 0 THEN [t EXCEPT !.pc = "setTimeout"]
  ELSE [t EXCEPT !.pc = "batchWrite"]

\* the continuation of await setTimeout(delay): on to the batchWrite call
AfterTimeout(t) == [t EXCEPT !.pc = "batchWrite"]

\* the continuation of await batchWrite(...), the store having answered
AfterResponse(t, response, tableName) ==
  LET chunk == Unprocessed(response, tableName)
  IN  LoopHead([t EXCEPT !.response = response,
                         !.chunk = chunk,
                         !.delay = IF Len(chunk) # 0 THEN NextDelay(t.delay)
                                   ELSE t.delay])

\* a catch that takes the error for a throttling and goes round the loop again
AfterThrow_retries(t, error) ==
  [t EXCEPT !.pc = "setTimeout", !.reason = error,
            !.delay = IF t.delay # 0 THEN t.delay * 2 ELSE initialDelay]

\* await batchWrite(...) throws: the async function rejects with the error
AfterThrow(t, error) == [t EXCEPT !.pc = "rejected", !.reason = error]

\* ---------------------------------------------- the chunks of one call
\* a for...of loop that awaits each chunk: only the first chunk is started
StartTasks_oneAtATime(chunks) ==
  [c \in DOMAIN chunks |-> IF c = 1 THEN LoopHead(NewTask(chunks[c]))
                           ELSE NewTask(chunks[c])]
\* chunks.map(async (chunk) => ...): every chunk runs to its first await
StartTasks(chunks) == [c \in DOMAIN chunks |-> LoopHead(NewTask(chunks[c]))]
\* Array.prototype.map calls the function on the elements in ascending index
\* order: the order in which the chunks run to their first await
MapOrder(chunks) == [i \in 1..Len(chunks) |-> i]
\* Promise.all with an abort: the first rejection rejects the pending siblings
OnThrow_failFast(tk, c, error) ==
  [d \in DOMAIN tk |->
     IF d = c \/ ~(tk[d].pc \in {"fulfilled", "rejected"})
     THEN [tk[d] EXCEPT !.pc = "rejected", !.reason = error]
     ELSE tk[d]]

\* Promise.allSettled: an event of chunk c changes chunk c's promise only
OnResponse(tk, c, response, tableName) ==
  [tk EXCEPT ![c] = AfterResponse(tk[c], response, tableName)]
OnThrow(tk, c, error) == [tk EXCEPT ![c] = AfterThrow(tk[c], error)]
OnTimeout(tk, c) == [tk EXCEPT ![c] = AfterTimeout(tk[c])]

Settled(t) == t.pc \in {"fulfilled", "rejected"}
\* Promise.all awaited inside a catch that ignores rejections: only fulfilled
\* chunks count
AllSettled_onlyFulfilled(tk) == \A c \in DOMAIN tk : tk[c].pc = "fulfilled"
AllSettled(tk) == \A c \in DOMAIN tk : Settled(tk[c])
\* the outcomes in reverse chunk order
Results_reversed(tk) ==
  [c \in DOMAIN tk |->
     IF tk[Len(tk) + 1 - c].pc = "fulfilled" THEN tk[Len(tk) + 1 - c].response
     ELSE tk[Len(tk) + 1 - c].reason]

\* .map(({ status, value, reason }) => status === 'fulfilled' ? value : reason)
Results(tk) ==
  [c \in DOMAIN tk |-> IF tk[c].pc = "fulfilled" THEN tk[c].response
                       ELSE tk[c].reason]

\* The chunks cs have just run to their next await, leaving the tasks tk: the
\* batchWrite calls they issued and the timers they started. cl, inf, tms are
\* the calls, requests in flight and timers before; waited is the delay the
\* chunk has just waited (0 when it has not).
Run(kind, tk, cs, cl, inf, tms, waited) ==
  LET sending == {c \in cs : tk[c].pc = "batchWrite"}
      sleeping == {c \in cs : tk[c].pc = "setTimeout"}
  IN  /\ task' = tk
      /\ calls' = [c \in DOMAIN tk |->
                     IF c \in sending
                     THEN Append(cl[c], [requests |-> Requests(kind, tk[c].chunk),
                                         waited |-> waited])
                     ELSE cl[c]]
      /\ inflight' = inf \cup {[chunk |-> c,
                                requests |-> Requests(kind, tk[c].chunk)] :
                               c \in sending}
      /\ timers' = tms \cup {[chunk |-> c, ms |-> tk[c].delay] : c \in sleeping}

\* deleteItems / putItems from _.chunk to the first await of every chunk
StartBulk(kind, tableName, list) ==
  LET chunks == Chunk(list, ChunkSize)
  IN  /\ bulk' = [kind |-> kind, tableName |-> tableName, chunks |-> chunks]
      /\ replies' = [c \in DOMAIN chunks |-> <<>>]
      /\ finished' = <<>>
      /\ launched' = MapOrder(chunks)
      /\ Run(kind, StartTasks(chunks), DOMAIN chunks,
             [c \in DOMAIN chunks |-> <<>>], {}, {}, 0)

\* ------------------------------------------------------------ purgeItems
\* options that never carry the cursor: every scan starts from the beginning
ScanOptions_fromStart(lastEvaluatedKey) == EmptyObject

\* options that go on from the last item read when the page carried no cursor
ScanOptions_afterPage(lastEvaluatedKey) ==
  IF Truthy(lastEvaluatedKey) THEN [ExclusiveStartKey |-> lastEvaluatedKey]
  ELSE IF purge.items # <<>>
  THEN [ExclusiveStartKey |-> Pick(Last(purge.items), KeyNames)]
  ELSE EmptyObject

\* lastEvaluatedKey ? { ExclusiveStartKey: lastEvaluatedKey } : {}
ScanOptions(lastEvaluatedKey) ==
  IF Truthy(lastEvaluatedKey) THEN [ExclusiveStartKey |-> lastEvaluatedKey]
  ELSE EmptyObject

\* await this.scan(tableName, options): the scan call is issued
IssueScan(lastEvaluatedKey) ==
  /\ scanning' = {ScanOptions(lastEvaluatedKey)}
  /\ scans' = Append(scans, [options |-> ScanOptions(lastEvaluatedKey),
                             response |-> Undefined])

\* the items themselves handed over as keys, nothing picked
ItemKeys_whole(items, keys) == items

\* items.map((item) => _.pick(item, keys))
ItemKeys(items, keys) == [i \in 1..Len(items) |-> Pick(items[i], keys)]

\* a count of pages: purged += 1
PurgeResume_countsPages ==
  /\ purge' = [purge EXCEPT !.purged = @ + 1]
  /\ IssueScan(purge.lastEvaluatedKey)

\* await this.deleteItems(...) has returned: purged += items.length, and the
\* loop test (items.length, non-zero here) leads to the next scan
PurgeResume ==
  /\ purge' = [purge EXCEPT !.purged = @ + Len(purge.items)]
  /\ IssueScan(purge.lastEvaluatedKey)

\* Promise.all in place of Promise.allSettled: the first chunk that rejects
\* makes the call reject with that chunk's error
Completion_promiseAll(tk) ==
  IF \E c \in DOMAIN tk : tk[c].pc = "rejected"
  THEN /\ status' = "thrown"
       /\ result' = tk[CHOOSE c \in DOMAIN tk : tk[c].pc = "rejected"].reason
       /\ UNCHANGED <<results, purgeVars>>
  ELSE IF AllSettled(tk)
  THEN /\ results' = Results(tk)
       /\ IF call.name = "purgeItems"
          THEN PurgeResume /\ UNCHANGED <<status, result>>
          ELSE /\ status' = "returned"
               /\ result' = Results(tk)
               /\ UNCHANGED purgeVars
  ELSE UNCHANGED <<results, status, result, purgeVars>>

\* Promise.any in place of Promise.allSettled: the call returns as soon as one
\* chunk has settled, its siblings still running
Completion_firstSettled(tk) ==
  IF \E c \in DOMAIN tk : Settled(tk[c])
  THEN /\ results' = Results(tk)
       /\ IF call.name = "purgeItems"
          THEN PurgeResume /\ UNCHANGED <<status, result>>
          ELSE /\ status' = "returned"
               /\ result' = Results(tk)
               /\ UNCHANGED purgeVars
  ELSE UNCHANGED <<results, status, result, purgeVars>>

\* Promise.allSettled has resolved (or not yet): the call's return, and what
\* the caller does with it
Completion(tk) ==
  IF AllSettled(tk)
  THEN /\ results' = Results(tk)
       /\ IF call.name = "purgeItems"
          THEN PurgeResume /\ UNCHANGED <<status, result>>
          ELSE /\ status' = "returned"
               /\ result' = Results(tk)
               /\ UNCHANGED purgeVars
  ELSE UNCHANGED <<results, status, result, purgeVars>>

\* ------------------------------------------------------------- the store
\* which requests of a batch the store may report as unprocessed: none, all,
\* all but the first
UnprocessedChoices(requests) ==
  {{}, DOMAIN requests, DOMAIN requests \ {1}}
SubSeqAt(s, idx) == SelectSeq([i \in DOMAIN s |-> <<i, s[i]>>],
                              LAMBDA p : p[1] \in idx)
Restrict(s, idx) == LET ps == SubSeqAt(s, idx) IN [i \in DOMAIN ps |-> ps[i][2]]

\* the table after the store applied the requests rs
Applied(tbl, rs) ==
  LET puts == {r.PutRequest.Item : r \in {x \in rs : "PutRequest" \in DOMAIN x}}
      stored == {x \in puts : IsItem(x)}
      gone == {r.DeleteRequest.Key : r \in {x \in rs : "DeleteRequest" \in DOMAIN x}}
             \cup {Pick(x, KeyNames) : x \in stored}
  IN  {y \in tbl : Pick(y, KeyNames) \notin gone} \cup stored

\* the items a scan starting after the key start has still to return
ScanRest(tbl, options) ==
  SelectSeq(Universe,
            LAMBDA x : /\ x \in tbl
                       /\ ("ExclusiveStartKey" \in DOMAIN options =>
                             x.entitySK > options.ExclusiveStartKey.entitySK))

\* ----------------------------------------------------------------- inputs
TableNameArgs == {Str(TableName), Str(""), Undefined}
\* a list that mixes a write entry and a delete entry
MixedOperations ==
  Arr(<<[PutRequest |-> [Item |-> Item(1)]], [DeleteRequest |-> [Key |-> Key(2)]]>>)
ItemArgs ==
  {Arr(ItemSeq(n)) : n \in 0..MaxItems}
  \cup {Undefined, Arr(<<Item(1), Str("x")>>), MixedOperations}
KeyArgs ==
  {Arr(KeySeq(n)) : n \in 0..MaxItems}
  \cup {Undefined, Arr(<<Key(1), Str("x")>>), MixedOperations}
KeyNameArgs == {Arr(KeyNames), Arr(<<>>), Undefined, Arr(<<Str("entityPK"), Undefined>>)}
InitialTables == {{Universe[i] : i \in 1..n} : n \in {0, 1, MaxItems}}

\* ------------------------------------------------------------------- Init
Init ==
  /\ table \in InitialTables
  /\ table0 = table
  /\ lastCall = [status |-> "none", result |-> Undefined]
  /\ call = [name |-> "none", tableName |-> Undefined, arg |-> Undefined]
  /\ status = "idle"
  /\ result = Undefined
  /\ bulk = [kind |-> "none", tableName |-> "", chunks |-> <<>>]
  /\ task = <<>>
  /\ results = <<>>
  /\ inflight = {}
  /\ timers = {}
  /\ calls = <<>>
  /\ replies = <<>>
  /\ finished = <<>>
  /\ launched = <<>>
  /\ purge = [purged |-> 0, lastEvaluatedKey |-> Undefined, items |-> <<>>,
              keys |-> <<>>]
  /\ scanning = {}
  /\ scans = <<>>
  /\ transacts = <<>>

\* ---------------------------------------------------------------- actions
\* a behaviour is one call on the client, made on any of the initial tables
CanCall == status = "idle"

\* putItems(tableName, items) / deleteItems(tableName, keys), up to the first
\* await of every chunk (or to the throw of the validation)
CallBulk(name, kind, tableName, arg) ==
  /\ CanCall
  /\ call' = [name |-> name, tableName |-> tableName, arg |-> arg]
  /\ IF ValidTableName(tableName) /\ ValidItems(arg)
     THEN /\ StartBulk(kind, tableName.str, arg.array)
          /\ IF Len(arg.array) = 0
             THEN status' = "returned" /\ result' = <<>>
             ELSE status' = "running" /\ result' = Undefined
     ELSE /\ status' = "thrown"
          /\ result' = ValidationError
          /\ UNCHANGED <<bulk, task, inflight, timers, calls, replies, finished,
                         launched>>
  /\ results' = <<>>
  /\ table0' = table
  /\ UNCHANGED <<lastCall, transacts>>
  /\ UNCHANGED <<table, purgeVars>>

CallPutItems(tableName, items) == CallBulk("putItems", "put", tableName, items)

CallDeleteItems(tableName, keys) ==
  CallBulk("deleteItems", "delete", tableName, keys)

\* purgeItems with "let purged = 1"
CallPurgeItems_countsFromOne(tableName, keys) ==
  /\ CanCall
  /\ call' = [name |-> "purgeItems", tableName |-> tableName, arg |-> keys]
  /\ IF ValidTableName(tableName) /\ ValidKeys(keys)
     THEN /\ status' = "running"
          /\ result' = Undefined
          /\ purge' = [purged |-> 1, lastEvaluatedKey |-> Undefined,
                       items |-> <<>>, keys |-> keys.array]
          /\ scanning' = {ScanOptions(Undefined)}
          /\ scans' = <<[options |-> ScanOptions(Undefined), response |-> Undefined]>>
     ELSE /\ status' = "thrown"
          /\ result' = ValidationError
          /\ UNCHANGED purgeVars
  /\ table0' = table
  /\ UNCHANGED <<lastCall, transacts>>
  /\ UNCHANGED <<table, bulkVars>>

\* purgeItems(tableName, keys), up to the first scan
CallPurgeItems(tableName, keys) ==
  /\ CanCall
  /\ call' = [name |-> "purgeItems", tableName |-> tableName, arg |-> keys]
  /\ IF ValidTableName(tableName) /\ ValidKeys(keys)
     THEN /\ status' = "running"
          /\ result' = Undefined
          /\ purge' = [purged |-> 0, lastEvaluatedKey |-> Undefined,
                       items |-> <<>>, keys |-> keys.array]
          /\ scanning' = {ScanOptions(Undefined)}
          /\ scans' = <<[options |-> ScanOptions(Undefined), response |-> Undefined]>>
     ELSE /\ status' = "thrown"
          /\ result' = ValidationError
          /\ UNCHANGED purgeVars
  /\ table0' = table
  /\ UNCHANGED <<lastCall, transacts>>
  /\ UNCHANGED <<table, bulkVars>>

\* the store may still throttle or fail this chunk's request
MayFail(c) ==
  /\ Len(calls[c]) < MaxAttempts
  /\ Len(scans) <= MaxScans

\* the store answers the batchWrite request m, reporting the requests at idx
\* as unprocessed and applying the others
BatchWriteResponds(m, idx) ==
  LET c == m.chunk
      response == [UnprocessedItems |->
                     IF idx = {} THEN EmptyObject
                     ELSE [t \in {bulk.tableName} |-> Restrict(m.requests, idx)]]
      tk == OnResponse(task, c, response, bulk.tableName)
  IN  /\ m \in inflight
      /\ idx \in UnprocessedChoices(m.requests)
      /\ idx # {} => MayFail(c)
      /\ table' = Applied(table, {m.requests[i] : i \in DOMAIN m.requests \ idx})
      /\ replies' = [replies EXCEPT ![c] = Append(@, response)]
      /\ finished' = IF Settled(tk[c]) THEN Append(finished, c) ELSE finished
      /\ Run(bulk.kind, tk, {c}, calls, inflight \ {m}, timers, 0)
      /\ Completion(tk)
      /\ UNCHANGED <<table0, lastCall, transacts, call, bulk, launched>>

\* the store fails the batchWrite request m
BatchWriteThrows(m, error) ==
  LET c == m.chunk
      tk == OnThrow(task, c, error)
  IN  /\ m \in inflight
      /\ MayFail(c)
      /\ replies' = [replies EXCEPT ![c] = Append(@, error)]
      /\ finished' = IF Settled(tk[c]) THEN Append(finished, c) ELSE finished
      /\ Run(bulk.kind, tk, {c}, calls, inflight \ {m}, timers, 0)
      /\ Completion(tk)
      /\ UNCHANGED <<table, table0, lastCall, transacts, call, bulk, launched>>

\* the timer tm of setTimeout(delay) fires
TimerFires(tm) ==
  LET c == tm.chunk
      tk == OnTimeout(task, c)
  IN  /\ tm \in timers
      /\ task[c].pc = "setTimeout"
      /\ Run(bulk.kind, tk, {c}, calls, inflight, timers \ {tm}, tm.ms)
      /\ UNCHANGED <<table, table0, lastCall, transacts, callVars, bulk, results,
                     replies, finished, launched, purgeVars>>

\* the page sizes the store may answer a scan with
PageSizes(rest, options) ==
  IF Len(scans) >= MaxScans THEN {Len(rest)}
  ELSE {n \in {0, 1, Len(rest)} :
          /\ n <= Len(rest)
          /\ (n = 0 /\ Len(rest) > 0) => "ExclusiveStartKey" \in DOMAIN options}

\* the store answers the scan with a page of n items, with a cursor or not;
\* purgeItems deletes the page's items, or returns when the page is empty
ScanResponds(options, n, cursor) ==
  LET rest == ScanRest(table, options)
      page == SubSeq(rest, 1, n)
      response ==
        IF cursor
        THEN [Items |-> page,
              LastEvaluatedKey |-> IF n > 0 THEN Pick(page[n], KeyNames)
                                   ELSE options.ExclusiveStartKey]
        ELSE [Items |-> page]
      lastEvaluatedKey ==
        IF "LastEvaluatedKey" \in DOMAIN response THEN response.LastEvaluatedKey
        ELSE Undefined
  IN  /\ options \in scanning
      /\ n \in PageSizes(rest, options)
      /\ n < Len(rest) => cursor
      /\ (cursor /\ n = 0) => "ExclusiveStartKey" \in DOMAIN options
      /\ (cursor /\ n = Len(rest)) => Len(scans) < MaxScans
      /\ scanning' = {}
      /\ scans' = [scans EXCEPT ![Len(scans)].response = response]
      /\ purge' = [purge EXCEPT !.items = page,
                                !.lastEvaluatedKey = lastEvaluatedKey]
      /\ IF Len(page) # 0
         THEN /\ StartBulk("delete", call.tableName.str, ItemKeys(page, purge.keys))
              /\ results' = <<>>
              /\ UNCHANGED <<status, result>>
         ELSE /\ status' = "returned"
              /\ result' = purge.purged
              /\ UNCHANGED bulkVars
      /\ UNCHANGED <<table, table0, lastCall, transacts, call>>

\* a scan wrapped in a catch that takes the failure for the end of the table
ScanThrows_swallowed(options, error) ==
  /\ options \in scanning
  /\ scanning' = {}
  /\ scans' = [scans EXCEPT ![Len(scans)].response = error]
  /\ status' = "returned"
  /\ result' = purge.purged
  /\ UNCHANGED <<table, table0, lastCall, transacts, call, bulkVars, purge>>

\* the store fails the scan: purgeItems rejects with the error
ScanThrows(options, error) ==
  /\ options \in scanning
  /\ scanning' = {}
  /\ scans' = [scans EXCEPT ![Len(scans)].response = error]
  /\ status' = "thrown"
  /\ result' = error
  /\ UNCHANGED <<table, table0, lastCall, transacts, call, bulkVars, purge>>

\* --------------------------------- transactPutItems, transactDeleteItems
\* a transaction cut to the store's 25 requests: the elements after the 25th
\* are left out
TransactItems_first25(kind, tableName, list) ==
  [i \in 1..Min(Len(list), ChunkSize) |->
     IF kind = "put" THEN [Put |-> [Item |-> list[i], TableName |-> tableName]]
     ELSE [Delete |-> [Key |-> list[i], TableName |-> tableName]]]

\* items.map((item) => ({ Put: { Item: item, TableName: tableName } })),
\* keys.map((key) => ({ Delete: { Key: key, TableName: tableName } }))
TransactItems(kind, tableName, list) ==
  [i \in 1..Len(list) |->
     IF kind = "put" THEN [Put |-> [Item |-> list[i], TableName |-> tableName]]
     ELSE [Delete |-> [Key |-> list[i], TableName |-> tableName]]]

\* the table after the store applied the whole transaction
AppliedTransaction(tbl, transactItems) ==
  Applied(tbl, {IF "Put" \in DOMAIN transactItems[i]
                THEN [PutRequest |-> [Item |-> transactItems[i].Put.Item]]
                ELSE [DeleteRequest |-> [Key |-> transactItems[i].Delete.Key]] :
                i \in DOMAIN transactItems})
\* what the store answers a transaction it applied
TransactWriteOutput == [metadata |-> [httpStatusCode |-> 200]]
TransactErrors == {[name |-> "StoreError", message |-> "transactWrite failed"]}

\* transactPutItems / transactDeleteItems up to await this.#doc.transactWrite
Transact(name, kind, tableName, arg) ==
  /\ call' = [name |-> name, tableName |-> tableName, arg |-> arg]
  /\ IF ValidTableName(tableName) /\ ValidItems(arg)
     THEN /\ status' = "running"
          /\ result' = Undefined
          /\ transacts' = Append(transacts,
               [TransactItems |-> TransactItems(kind, tableName.str, arg.array),
                response |-> Undefined])
     ELSE /\ status' = "thrown"
          /\ result' = ValidationError
          /\ UNCHANGED transacts
  /\ table0' = table
  /\ UNCHANGED <<table, bulkVars, purgeVars>>

CallTransactPutItems(tableName, items) ==
  /\ CanCall
  /\ Transact("transactPutItems", "put", tableName, items)
  /\ UNCHANGED lastCall

CallTransactDeleteItems(tableName, keys) ==
  /\ CanCall
  /\ Transact("transactDeleteItems", "delete", tableName, keys)
  /\ UNCHANGED lastCall

\* the caller, whose transactPutItems call has returned, calls
\* transactDeleteItems with the keys of the same items
TransactDeleteAfterPut ==
  /\ call.name = "transactPutItems"
  /\ status = "returned"
  /\ lastCall.status = "none"
  /\ lastCall' = [status |-> status, result |-> result]
  /\ Transact("transactDeleteItems", "delete", call.tableName,
              Arr(ItemKeys(call.arg.array, KeyNames)))

\* the store applies the transaction in flight and answers
TransactWriteResponds ==
  /\ transacts # <<>>
  /\ status = "running"
  /\ Last(transacts).response = Undefined
  /\ table' = AppliedTransaction(table, Last(transacts).TransactItems)
  /\ transacts' = [transacts EXCEPT ![Len(transacts)].response = TransactWriteOutput]
  /\ status' = "returned"
  /\ result' = TransactWriteOutput
  /\ UNCHANGED <<table0, lastCall, call, bulkVars, purgeVars>>

\* the store fails the transaction in flight: the call rejects with the error
TransactWriteThrows(error) ==
  /\ transacts # <<>>
  /\ status = "running"
  /\ Last(transacts).response = Undefined
  /\ transacts' = [transacts EXCEPT ![Len(transacts)].response = error]
  /\ status' = "thrown"
  /\ result' = error
  /\ UNCHANGED <<table, table0, lastCall, call, bulkVars, purgeVars>>

Next ==
  \/ \E tn \in TableNameArgs, items \in ItemArgs : CallPutItems(tn, items)
  \/ \E tn \in TableNameArgs, keys \in KeyArgs : CallDeleteItems(tn, keys)
  \/ \E tn \in TableNameArgs, keys \in KeyNameArgs : CallPurgeItems(tn, keys)
  \/ \E m \in inflight : \E idx \in UnprocessedChoices(m.requests) :
        BatchWriteResponds(m, idx)
  \/ \E m \in inflight, e \in StoreErrors : BatchWriteThrows(m, e)
  \/ \E tm \in timers : TimerFires(tm)
  \/ \E o \in scanning, cursor \in BOOLEAN :
        \E n \in PageSizes(ScanRest(table, o), o) : ScanResponds(o, n, cursor)
  \/ \E o \in scanning, e \in ScanErrors : ScanThrows(o, e)
  \/ \E tn \in TableNameArgs, items \in ItemArgs : CallTransactPutItems(tn, items)
  \/ \E tn \in TableNameArgs, keys \in KeyArgs : CallTransactDeleteItems(tn, keys)
  \/ TransactDeleteAfterPut
  \/ TransactWriteResponds
  \/ \E e \in TransactErrors : TransactWriteThrows(e)

Spec == Init /\ [][Next]_vars

\* ------------------------------------------------- purgeItems run twice
\* the caller, whose purgeItems call has returned or thrown, calls it again
\* with the same arguments
PurgeItemsAgain ==
  /\ call.name = "purgeItems"
  /\ status \in {"returned", "thrown"}
  /\ ValidTableName(call.tableName) /\ ValidKeys(call.arg)
  /\ lastCall.status = "none"
  /\ lastCall' = [status |-> status, result |-> result]
  /\ table0' = table
  /\ status' = "running"
  /\ result' = Undefined
  /\ purge' = [purged |-> 0, lastEvaluatedKey |-> Undefined,
               items |-> <<>>, keys |-> call.arg.array]
  /\ scanning' = {ScanOptions(Undefined)}
  /\ scans' = <<[options |-> ScanOptions(Undefined), response |-> Undefined]>>
  /\ bulk' = [kind |-> "none", tableName |-> "", chunks |-> <<>>]
  /\ task' = <<>>
  /\ results' = <<>>
  /\ calls' = <<>>
  /\ replies' = <<>>
  /\ finished' = <<>>
  /\ launched' = <<>>
  /\ UNCHANGED <<table, call, inflight, timers, transacts>>

NextRerun ==
  \/ \E tn \in TableNameArgs, keys \in KeyNameArgs : CallPurgeItems(tn, keys)
  \/ PurgeItemsAgain
  \/ \E m \in inflight : \E idx \in UnprocessedChoices(m.requests) :
        BatchWriteResponds(m, idx)
  \/ \E m \in inflight, e \in StoreErrors : BatchWriteThrows(m, e)
  \/ \E tm \in timers : TimerFires(tm)
  \/ \E o \in scanning, cursor \in BOOLEAN :
        \E n \in PageSizes(ScanRest(table, o), o) : ScanResponds(o, n, cursor)
  \/ \E o \in scanning, e \in ScanErrors : ScanThrows(o, e)

SpecRerun == Init /\ [][NextRerun]_vars

\* ------------------------------ putItems / deleteItems under a fair store
NextBulk ==
  \/ \E tn \in TableNameArgs, items \in ItemArgs : CallPutItems(tn, items)
  \/ \E tn \in TableNameArgs, keys \in KeyArgs : CallDeleteItems(tn, keys)
  \/ \E m \in inflight : \E idx \in UnprocessedChoices(m.requests) :
        BatchWriteResponds(m, idx)
  \/ \E m \in inflight, e \in StoreErrors : BatchWriteThrows(m, e)
  \/ \E tm \in timers : TimerFires(tm)

\* the store answers a batchWrite request in flight, one way or the other
StoreAnswers ==
  \E m \in inflight :
    \/ \E idx \in UnprocessedChoices(m.requests) : BatchWriteResponds(m, idx)
    \/ \E e \in StoreErrors : BatchWriteThrows(m, e)
\* a pending timer fires
TimerElapses == \E tm \in timers : TimerFires(tm)

\* every request in flight is answered and every timer fires; by MayFail the
\* store stops throttling a chunk after MaxAttempts calls
SpecBulkFair ==
  /\ Init
  /\ [][NextBulk]_vars
  /\ WF_vars(StoreAnswers)
  /\ WF_vars(TimerElapses)

\* ------------------------------------------------------------ properties
IsError(r) == "name" \in DOMAIN r
IsResponse(r) == "UnprocessedItems" \in DOMAIN r
\* the requests a store answer reports as unprocessed for the call's table
Reported(r) ==
  IF IsResponse(r) /\ bulk.tableName \in DOMAIN r.UnprocessedItems
  THEN r.UnprocessedItems[bulk.tableName]
  ELSE <<>>
Throttled(r) == Len(Reported(r)) > 0
RECURSIVE Pow2(_)
Pow2(n) == IF n = 0 THEN 1 ELSE 2 * Pow2(n - 1)
\* the number of answers of chunk c that reported unprocessed requests
Throttlings(c) == Cardinality({i \in DOMAIN replies[c] : Throttled(replies[c][i])})
InFlightOf(c) == {m \in inflight : m.chunk = c}
TimersOf(c) == {tm \in timers : tm.chunk = c}
\* a putItems / deleteItems call made by the caller that passed validation
BulkCall ==
  /\ call.name \in {"putItems", "deleteItems"}
  /\ status \in {"running", "returned"}

\* C1: a valid list of N >= 1 operations is split into ceil(N/25) chunks, all
\* of 25 elements except possibly the last, which together are the list in
\* its order; the call returns one outcome per chunk.
C1_ChunksAndOutcomes ==
  (BulkCall /\ Len(call.arg.array) >= 1) =>
    LET list == call.arg.array
        N == Len(list)
        n == Len(bulk.chunks)
    IN  /\ 25 * (n - 1) < N
        /\ N <= 25 * n
        /\ \A c \in 1..(n - 1) : Len(bulk.chunks[c]) = 25
        /\ Len(bulk.chunks[n]) = N - 25 * (n - 1)
        /\ \A i \in 1..N :
             bulk.chunks[((i - 1) \div 25) + 1][((i - 1) % 25) + 1] = list[i]
        /\ DOMAIN task = 1..n
        /\ status = "returned" => Len(result) = n

C1_Witness ==
  /\ BulkCall
  /\ status = "returned"
  /\ Len(call.arg.array) = 26
  /\ Len(bulk.chunks) = 2
  /\ Len(bulk.chunks[1]) = 25
  /\ Len(bulk.chunks[2]) = 1
  /\ Len(result) = 2

\* C2: every retry request of a chunk carries exactly the requests the store
\* reported as unprocessed in the chunk's previous answer, unaltered.
C2_RetryCarriesUnprocessed ==
  \A c \in DOMAIN calls :
    \A i \in 2..Len(calls[c]) :
      calls[c][i].requests = Reported(replies[c][i - 1])

\* C3: the first call of a chunk waits for no delay, the call after the i-th
\* throttled answer waits 100 * 2^(i-1) ms, and a chunk that succeeded after
\* k throttled answers issued exactly k + 1 calls.
C3_CallsAndDelays ==
  \A c \in DOMAIN calls :
    /\ \A i \in DOMAIN calls[c] :
         calls[c][i].waited = IF i = 1 THEN 0 ELSE 100 * Pow2(i - 2)
    /\ task[c].pc = "fulfilled" => Len(calls[c]) = Throttlings(c) + 1

C3_Witness ==
  \E c \in DOMAIN calls :
    /\ task[c].pc = "fulfilled"
    /\ Throttlings(c) = 2
    /\ Len(calls[c]) = 3
    /\ calls[c][2].waited = 100
    /\ calls[c][3].waited = 200

\* C4: a chunk whose every answer reports no unprocessed request issues one
\* batchWrite call and waits for no delay.
C4_NoRetryWithoutUnprocessed ==
  \A c \in DOMAIN calls :
    (\A i \in DOMAIN replies[c] :
       IsResponse(replies[c][i]) /\ ~Throttled(replies[c][i]))
    => /\ Len(calls[c]) = 1
       /\ calls[c][1].waited = 0
       /\ TimersOf(c) = {}

C4_Witness ==
  /\ BulkCall
  /\ status = "returned"
  /\ Len(bulk.chunks) = 2
  /\ \A c \in DOMAIN calls :
       /\ Len(replies[c]) = 1
       /\ IsResponse(replies[c][1])
       /\ ~Throttled(replies[c][1])
       /\ Len(calls[c]) = 1

\* C5: a chunk ends successfully only on an answer reporting no unprocessed
\* request, and its outcome is that answer.
C5_SuccessIsFinalEmptyResponse ==
  \A c \in DOMAIN task :
    task[c].pc = "fulfilled" =>
      /\ Len(replies[c]) >= 1
      /\ IsResponse(Last(replies[c]))
      /\ ~Throttled(Last(replies[c]))
      /\ task[c].response = Last(replies[c])
      /\ Len(calls[c]) = Len(replies[c])
      /\ (BulkCall /\ status = "returned") => result[c] = Last(replies[c])

C5_Witness ==
  /\ BulkCall
  /\ status = "returned"
  /\ \E c \in DOMAIN task :
       /\ task[c].pc = "fulfilled"
       /\ Len(replies[c]) = 2
       /\ Throttled(replies[c][1])
       /\ result[c] = replies[c][2]

\* what chunk c's own answers rs[i..] make of its task t
RECURSIVE Replay(_, _, _)
Replay(t, rs, i) ==
  IF i > Len(rs) THEN t
  ELSE LET sent == IF t.pc = "setTimeout" THEN AfterTimeout(t) ELSE t
       IN  Replay(IF IsError(rs[i]) THEN AfterThrow(sent, rs[i])
                  ELSE AfterResponse(sent, rs[i], bulk.tableName),
                  rs, i + 1)
OwnRun(c) == Replay(LoopHead(NewTask(bulk.chunks[c])), replies[c], 1)

\* C6: a chunk's requests, delays and outcome are determined by the answers
\* to its own requests, whatever its sibling chunks did; its loop is live
\* (a request in flight or a timer pending) until its own outcome.
C6_ChunksIndependent ==
  \A c \in DOMAIN task :
    /\ IF Len(calls[c]) > Len(replies[c]) /\ OwnRun(c).pc = "setTimeout"
       THEN task[c] = AfterTimeout(OwnRun(c))
       ELSE task[c] = OwnRun(c)
    /\ \A i \in DOMAIN calls[c] :
         calls[c][i].requests =
           Requests(bulk.kind, IF i = 1 THEN bulk.chunks[c]
                               ELSE Reported(replies[c][i - 1]))
    /\ task[c].pc = "batchWrite" =>
         InFlightOf(c) = {[chunk |-> c, requests |-> Last(calls[c]).requests]}
    /\ task[c].pc = "setTimeout" =>
         TimersOf(c) = {[chunk |-> c, ms |-> task[c].delay]}

C6_Witness ==
  /\ BulkCall
  /\ DOMAIN task = {1, 2}
  /\ task[1].pc = "rejected"
  /\ Len(calls[1]) = 2
  /\ task[2].pc = "batchWrite"
  /\ Len(calls[2]) = 2

\* C7: once a batchWrite call of a chunk throws, the chunk issues no further
\* call and its outcome is that error.
C7_ThrowEndsChunk ==
  \A c \in DOMAIN task :
    /\ \A i \in DOMAIN replies[c] :
         IsError(replies[c][i]) =>
           /\ i = Len(replies[c])
           /\ Len(calls[c]) = i
           /\ InFlightOf(c) = {}
           /\ TimersOf(c) = {}
           /\ task[c].pc = "rejected"
           /\ task[c].reason = replies[c][i]
           /\ (BulkCall /\ status = "returned") => result[c] = replies[c][i]

C7_Witness ==
  /\ BulkCall
  /\ status = "returned"
  /\ \E c \in DOMAIN task :
       /\ Len(replies[c]) = 2
       /\ Throttled(replies[c][1])
       /\ IsError(replies[c][2])
       /\ result[c] = replies[c][2]

\* C8: a chunk's outcome is an error only if one of its calls threw, and
\* after every answer reporting unprocessed requests the chunk waits and
\* resubmits, however many such answers came before.
C8_UnprocessedAlwaysRetried ==
  \A c \in DOMAIN task :
    /\ task[c].pc = "rejected" =>
         (Len(replies[c]) >= 1 /\ IsError(Last(replies[c])))
    /\ (BulkCall /\ status = "returned" /\ ~IsResponse(result[c])) =>
         \E i \in DOMAIN replies[c] : IsError(replies[c][i])
    /\ \A i \in DOMAIN replies[c] :
         Throttled(replies[c][i]) =>
           IF Len(calls[c]) > i THEN TRUE
           ELSE /\ i = Len(replies[c])
                /\ task[c].pc = "setTimeout"
                /\ TimersOf(c) # {}

C8_Witness ==
  \E c \in DOMAIN task :
    /\ Len(replies[c]) = MaxAttempts - 1
    /\ \A i \in DOMAIN replies[c] : Throttled(replies[c][i])
    /\ Len(calls[c]) = MaxAttempts
    /\ task[c].pc = "batchWrite"

\* C9: a chunk has at most one request in flight; a request is issued only
\* when every earlier request of the chunk has been answered, and a retry
\* only after its timer (of a non-zero delay) has fired.
C9_AttemptsSequential ==
  \A c \in DOMAIN task :
    /\ Cardinality(InFlightOf(c)) <= 1
    /\ Len(calls[c]) = Len(replies[c]) + Cardinality(InFlightOf(c))
    /\ TimersOf(c) # {} => InFlightOf(c) = {}
    /\ \A i \in 2..Len(calls[c]) :
         /\ calls[c][i].waited > 0
         /\ calls[c][i].waited = Replay(LoopHead(NewTask(bulk.chunks[c])),
                                        SubSeq(replies[c], 1, i - 1), 1).delay

C9_Witness ==
  \E c \in DOMAIN task :
    /\ Len(calls[c]) = 3
    /\ Cardinality(InFlightOf(c)) = 1
    /\ Len(replies[c]) = 2
    /\ TimersOf(c) = {}

\* C10: every batchWrite request of putItems, deleteItems and purgeItems
\* carries between 1 and 25 operations.
C10_RequestSize ==
  /\ \A c \in DOMAIN calls :
       \A i \in DOMAIN calls[c] :
         /\ Len(calls[c][i].requests) >= 1
         /\ Len(calls[c][i].requests) <= 25
  /\ \A m \in inflight :
       /\ Len(m.requests) >= 1
       /\ Len(m.requests) <= 25

C10_Witness ==
  /\ call.name = "purgeItems"
  /\ DOMAIN calls = {1, 2}
  /\ Len(calls[1]) = 2
  /\ Len(calls[1][1].requests) = 25
  /\ Len(calls[1][2].requests) = 24
  /\ Len(calls[2][1].requests) = 1

\* a call the caller has made, whatever became of it
Called(names) == call.name \in names /\ status # "idle"
NoStoreCall ==
  /\ \A c \in DOMAIN calls : calls[c] = <<>>
  /\ inflight = {}
  /\ timers = {}
  /\ scans = <<>>
  /\ scanning = {}

\* C11: putItems, deleteItems and purgeItems called with a table name that is
\* not a non-empty string throw the validation error, whatever the other
\* argument, and issue no batchWrite and no scan.
C11_BadTableNameRejected ==
  (/\ Called({"putItems", "deleteItems", "purgeItems"})
   /\ (~IsString(call.tableName) \/ call.tableName = Str("")))
  => /\ status = "thrown"
     /\ result = ValidationError
     /\ NoStoreCall

C11_Witness ==
  /\ Called({"putItems", "deleteItems", "purgeItems"})
  /\ call.tableName = Str("")
  /\ call.arg \in {Arr(KeySeq(1)), Arr(KeyNames)}
  /\ status = "thrown"
  /\ NoStoreCall

\* C12: putItems and deleteItems called with an empty list throw the
\* validation error and issue no batchWrite.
C12_EmptyListRejected ==
  (/\ Called({"putItems", "deleteItems"})
   /\ IsArray(call.arg)
   /\ Len(call.arg.array) = 0)
  => /\ status = "thrown"
     /\ result = ValidationError
     /\ NoStoreCall

\* the error outcomes of the chunks of a returned putItems / deleteItems call
ErrorOutcomes ==
  IF BulkCall /\ status = "returned"
  THEN {c \in DOMAIN result : \E i \in DOMAIN replies[c] : IsError(replies[c][i])}
  ELSE {}

\* C13: the outcome of a chunk whose batchWrite threw is a wrapper of the
\* store's error that names the table and the operation type (put or delete).
C13_ErrorWrappedWithContext ==
  \A c \in ErrorOutcomes :
    /\ result[c] # Last(replies[c])
    /\ {"tableName", "operation"} \subseteq DOMAIN result[c]

\* the answers of the store to purgeItems' scans that are pages
IsPage(r) == "Items" \in DOMAIN r
HasCursor(r) == "LastEvaluatedKey" \in DOMAIN r
PurgeCall == call.name = "purgeItems" /\ status \in {"running", "returned"}

\* C14: purgeItems returns only after a page with no item and no cursor, and
\* an empty page that carries a cursor is followed by a scan from that cursor.
C14_ReadsWhileCursorOrItems ==
  PurgeCall =>
    /\ status = "returned" =>
         /\ IsPage(Last(scans).response)
         /\ Len(Last(scans).response.Items) = 0
         /\ ~HasCursor(Last(scans).response)
    /\ \A i \in DOMAIN scans :
         (/\ IsPage(scans[i].response)
          /\ Len(scans[i].response.Items) = 0
          /\ HasCursor(scans[i].response))
         => /\ i < Len(scans)
            /\ scans[i + 1].options =
                 [ExclusiveStartKey |-> scans[i].response.LastEvaluatedKey]

StartsFrom(options, key) ==
  /\ "ExclusiveStartKey" \in DOMAIN options
  /\ options.ExclusiveStartKey = key
FromStart(options) == "ExclusiveStartKey" \notin DOMAIN options

\* C15: the first scan of purgeItems passes no cursor; every later scan
\* follows an answered page and passes exactly the cursor of that page, or no
\* cursor when the page carried none.
C15_CursorChaining ==
  PurgeCall =>
    /\ Len(scans) >= 1
    /\ FromStart(scans[1].options)
    /\ \A i \in 2..Len(scans) :
         LET previous == scans[i - 1].response
         IN  /\ IsPage(previous)
             /\ IF HasCursor(previous)
                THEN StartsFrom(scans[i].options, previous.LastEvaluatedKey)
                ELSE FromStart(scans[i].options)

C15_Witness ==
  /\ PurgeCall
  /\ Len(scans) = 3
  /\ HasCursor(scans[1].response)
  /\ StartsFrom(scans[2].options, Key(1))
  /\ ~HasCursor(scans[2].response)
  /\ FromStart(scans[3].options)

Unanswered == {i \in DOMAIN scans : ~IsPage(scans[i].response) /\ ~IsError(scans[i].response)}

\* C16: purgeItems has at most one scan in flight, and while a scan is in
\* flight the bulk delete of the previous page is over: no batchWrite in
\* flight, no backoff timer pending, every chunk settled.
C16_ReadsAndDeletesSequential ==
  PurgeCall =>
    /\ Cardinality(scanning) <= 1
    /\ Cardinality(Unanswered) = Cardinality(scanning)
    /\ Unanswered \subseteq {Len(scans)}
    /\ scanning # {} =>
         /\ inflight = {}
         /\ timers = {}
         /\ AllSettled(task)
         /\ \A c \in DOMAIN task : Len(calls[c]) = Len(replies[c])

C16_Witness ==
  /\ PurgeCall
  /\ scanning # {}
  /\ Len(scans) = 2
  /\ DOMAIN task = {1, 2}
  /\ Len(calls[1]) = 3
  /\ Len(calls[2]) = 1

\* the chunks of the bulk call under way, end to end
RECURSIVE Concat(_, _)
Concat(chunks, n) == IF n = 0 THEN <<>> ELSE Concat(chunks, n - 1) \o chunks[n]
\* the attribute names the caller of purgeItems supplied
SuppliedNames == {call.arg.array[i].str : i \in DOMAIN call.arg.array}
\* the last page the store answered a scan of purgeItems with
LastPage ==
  IF IsPage(Last(scans).response) THEN Last(scans).response.Items
  ELSE scans[Len(scans) - 1].response.Items
\* a non-empty page has been read and handed to the bulk delete
PageDispatched == PurgeCall /\ Len(purge.items) > 0

\* C17: the list purgeItems hands to the bulk delete for a non-empty page has
\* one key per item of the page, in page order; each key has the item's
\* values for the supplied key attribute names and no other attribute, and
\* the first batchWrite of every chunk asks for the deletion of these keys.
C17_KeysOfPage ==
  PageDispatched =>
    LET page == LastPage
        keys == Concat(bulk.chunks, Len(bulk.chunks))
    IN  /\ bulk.kind = "delete"
        /\ Len(keys) = Len(page)
        /\ \A i \in DOMAIN page :
             /\ DOMAIN keys[i] = SuppliedNames \cap DOMAIN page[i]
             /\ \A a \in DOMAIN keys[i] : keys[i][a] = page[i][a]
        /\ \A c \in DOMAIN calls :
             \A j \in DOMAIN bulk.chunks[c] :
               calls[c][1].requests[j] =
                 [DeleteRequest |-> [Key |-> bulk.chunks[c][j]]]

C17_Witness ==
  /\ PageDispatched
  /\ Len(LastPage) = 26
  /\ "data" \in DOMAIN LastPage[26]
  /\ Len(bulk.chunks) = 2
  /\ bulk.chunks[2] = <<Key(26)>>
  /\ calls[2][1].requests = <<[DeleteRequest |-> [Key |-> Key(26)]]>>

\* the items the call's deletes have removed from the table so far
Removed == table0 \ table

\* C18: the number a purgeItems call returns is the number of items its
\* deletes removed from the table (no one else writes to the table).
C18_CountIsRemoved ==
  (call.name = "purgeItems" /\ status = "returned") =>
    result = Cardinality(Removed)

\* every write request purgeItems has issued or has in flight is a delete
OnlyDeletes ==
  /\ \A c \in DOMAIN calls :
       \A i \in DOMAIN calls[c] :
         \A j \in DOMAIN calls[c][i].requests :
           "PutRequest" \notin DOMAIN calls[c][i].requests[j]
  /\ \A m \in inflight :
       \A j \in DOMAIN m.requests : "PutRequest" \notin DOMAIN m.requests[j]

\* C19: once a scan of purgeItems has failed, purgeItems has thrown that
\* error, the failed scan is the last one, no scan or batchWrite is in flight
\* and no timer is pending; the writes it issued are deletes only, and the
\* items removed before the failure are not back in the table.
C19_ScanFailureAborts ==
  (/\ call.name = "purgeItems"
   /\ \E i \in DOMAIN scans : IsError(scans[i].response))
  => /\ IsError(Last(scans).response)
     /\ \A i \in 1..(Len(scans) - 1) : IsPage(scans[i].response)
     /\ status = "thrown"
     /\ result = Last(scans).response
     /\ scanning = {}
     /\ inflight = {}
     /\ timers = {}
     /\ OnlyDeletes
     /\ table \subseteq table0
     /\ ~ENABLED Next

C19_Witness ==
  /\ call.name = "purgeItems"
  /\ status = "thrown"
  /\ Len(scans) = 2
  /\ IsError(scans[2].response)
  /\ Cardinality(table0) = 26
  /\ Cardinality(table) = 25

\* the bulk delete of the current page has returned with a chunk aborted by
\* a store error
DeleteFailed ==
  /\ call.name = "purgeItems"
  /\ DOMAIN task # {}
  /\ AllSettled(task)
  /\ \E c \in DOMAIN task : task[c].pc = "rejected"

\* C20: when the bulk delete of a page has failed, purgeItems has thrown: it
\* has not returned a count, and no scan or batchWrite follows.
C20_DeleteFailureAborts ==
  DeleteFailed =>
    /\ status = "thrown"
    /\ scanning = {}
    /\ inflight = {}

NoBulkWrite ==
  /\ \A c \in DOMAIN calls : calls[c] = <<>>
  /\ inflight = {}
  /\ timers = {}

\* C21: purgeItems on a table that holds no item issues one scan and no
\* batchWrite, and when that scan is answered returns 0.
C21_PurgeOfEmptyTable ==
  (PurgeCall /\ table0 = {}) =>
    /\ Len(scans) = 1
    /\ NoBulkWrite
    /\ table = {}
    /\ status = "returned" <=> IsPage(scans[1].response)
    /\ status = "returned" => result = 0

C21_Witness ==
  /\ PurgeCall
  /\ table0 = {}
  /\ status = "returned"
  /\ result = 0
  /\ Len(scans) = 1
  /\ scans[1].response = [Items |-> <<>>]

\* the scans of purgeItems that were answered with a page holding items
NonEmptyPages ==
  {i \in DOMAIN scans : IsPage(scans[i].response) /\ Len(scans[i].response.Items) > 0}

\* C22: a purgeItems call that read the items of the table in more than one
\* page and returned has removed every item the table held, returns their
\* number, and a scan of the table now finds nothing.
C22_PurgeRoundTrip ==
  (/\ PurgeCall
   /\ status = "returned"
   /\ Cardinality(NonEmptyPages) > 1)
  => /\ table = {}
     /\ ScanRest(table, EmptyObject) = <<>>
     /\ result = Cardinality(table0)

\* the second of two purgeItems calls
SecondPurge == PurgeCall /\ lastCall.status # "none"

\* C23: a purgeItems call that follows an aborted one and returns has removed
\* exactly the items that were still in the table and returns their number;
\* a purgeItems call that follows a completed one returns 0.
C23_RerunSafe ==
  (SecondPurge /\ status = "returned") =>
    /\ table = {}
    /\ result = Cardinality(table0)
    /\ lastCall.status = "returned" => result = 0

\* a putItems / deleteItems call has returned and every outcome is a response
ReturnedOnlySuccesses(name) ==
  /\ call.name = name
  /\ status = "returned"
  /\ \A c \in DOMAIN result : IsResponse(result[c])
\* the stored items whose key is k
StoredUnder(k) == {x \in table : Pick(x, KeyNames) = k}

\* C24: after a putItems call that returned only successful outcomes every
\* item of its list is stored; after a deleteItems call that returned only
\* successful outcomes no item with one of its keys is stored; whatever the
\* store reported as unprocessed along the way.
C24_PutDeleteRoundTrip ==
  /\ ReturnedOnlySuccesses("putItems") =>
       \A i \in DOMAIN call.arg.array : call.arg.array[i] \in table
  /\ ReturnedOnlySuccesses("deleteItems") =>
       \A i \in DOMAIN call.arg.array : StoredUnder(call.arg.array[i]) = {}

\* C25: purgeItems called with key attribute names that are not an array, or
\* an empty array, or an array with an element that is not a string, throws
\* the validation error and issues no scan and no batchWrite.
C25_BadKeyNamesRejected ==
  (/\ Called({"purgeItems"})
   /\ \/ ~IsArray(call.arg)
      \/ Len(call.arg.array) = 0
      \/ \E i \in DOMAIN call.arg.array : ~IsString(call.arg.array[i]))
  => /\ status = "thrown"
     /\ result = ValidationError
     /\ NoStoreCall

C25_Witness ==
  /\ Called({"purgeItems"})
  /\ call.tableName = Str(TableName)
  /\ call.arg = Arr(<<>>)
  /\ status = "thrown"
  /\ NoStoreCall

MixedCall ==
  /\ Called({"putItems", "deleteItems"})
  /\ call.tableName = Str(TableName)
  /\ call.arg = MixedOperations

TransactCall ==
  /\ call.name \in {"transactPutItems", "transactDeleteItems"}
  /\ status # "idle"
  /\ ValidTableName(call.tableName)
  /\ ValidItems(call.arg)

BulkReturned == BulkCall /\ status = "returned"

\* C28: with every batchWrite answered, every timer fired and the store
\* ending each chunk's throttling, a putItems / deleteItems call that passed
\* validation returns; when it has returned, every chunk's loop has ended (no
\* request in flight, no timer pending) and there is one outcome per chunk.
C28_EventuallyReturns ==
  /\ [](BulkReturned =>
          /\ AllSettled(task)
          /\ inflight = {}
          /\ timers = {}
          /\ Len(result) = Len(bulk.chunks))
  /\ (BulkCall /\ status = "running") ~> BulkReturned

C28_Witness ==
  /\ BulkReturned
  /\ Len(bulk.chunks) = 2
  /\ Len(calls[1]) = MaxAttempts
  /\ IsResponse(result[1])
  /\ IsError(result[2])

\* a putItems / deleteItems call whose arguments pass the validation
ValidBulkCall ==
  /\ Called({"putItems", "deleteItems"})
  /\ ValidTableName(call.tableName)
  /\ ValidItems(call.arg)

\* C29: a putItems / deleteItems call whose arguments are valid never throws;
\* what it returns holds, for every chunk, the chunk's final response when the
\* chunk succeeded and the store's error when it failed.
C29_NeverRejects ==
  ValidBulkCall =>
    /\ status \in {"running", "returned"}
    /\ status = "returned" =>
         /\ DOMAIN result = DOMAIN bulk.chunks
         /\ \A c \in DOMAIN result :
              /\ Len(replies[c]) >= 1
              /\ result[c] = Last(replies[c])
              /\ IsError(result[c]) \/ (IsResponse(result[c]) /\ ~Throttled(result[c]))

C29_Witness ==
  /\ ValidBulkCall
  /\ status = "returned"
  /\ DOMAIN result = {1, 2}
  /\ IsError(result[1])
  /\ IsError(result[2])

\* C30: outcome c of a returned putItems / deleteItems call is the final
\* answer to the requests of chunk c, the chunk that holds the elements
\* 25 * (c - 1) + 1 .. 25 * c of the list, whatever the order in which the
\* chunks ended.
C30_OutcomesInChunkOrder ==
  BulkReturned =>
    LET list == call.arg.array
    IN  /\ Len(finished) = Len(result)
        /\ \A c \in DOMAIN result :
             /\ Len(calls[c][1].requests) = Min(25, Len(list) - 25 * (c - 1))
             /\ \A j \in DOMAIN calls[c][1].requests :
                  calls[c][1].requests[j] =
                    IF call.name = "putItems"
                    THEN [PutRequest |-> [Item |-> list[25 * (c - 1) + j]]]
                    ELSE [DeleteRequest |-> [Key |-> list[25 * (c - 1) + j]]]
             /\ result[c] = Last(replies[c])

C30_Witness ==
  /\ BulkReturned
  /\ finished = <<2, 1>>
  /\ IsResponse(result[1])
  /\ IsError(result[2])

\* the chunks of the putItems / deleteItems call under way, purgeItems' own
\* deleteItems calls included
Chunks == DOMAIN bulk.chunks
\* no store answer has been processed and no wait has started
NothingProcessed ==
  /\ \A c \in Chunks : replies[c] = <<>>
  /\ timers = {}
  /\ finished = <<>>

NeverUnprocessed ==
  \A c \in DOMAIN replies : \A i \in DOMAIN replies[c] : ~Throttled(replies[c][i])
\* purgeItems has gone once round its loop (a page read, its bulk delete
\* returned) and is about to read again
SecondRound ==
  /\ PurgeCall
  /\ status = "running"
  /\ Len(scans) = 2
  /\ scanning # {}
\* purgeItems and the store are where they were when the first scan was
\* issued: the same scan, of the same non-empty table
BackAtStart ==
  /\ FromStart(scans[2].options)
  /\ table = table0
  /\ table # {}

\* C32: purgeItems eventually returns or throws when every store call is
\* answered, no one else writes to the table and no answer reports
\* unprocessed requests, bulk deletes ending with store errors included. A
\* call that always ends cannot come back to where it began, since the
\* answers that brought it back once satisfy the conditions and can bring it
\* back for ever: after one round of the loop purgeItems is never about to
\* scan again, from the beginning, the table as it was when it was called.
C32_PurgeEnds ==
  (SecondRound /\ NeverUnprocessed) => ~BackAtStart

\* the number of items on the first n pages purgeItems read
RECURSIVE PagesTotal(_)
PagesTotal(n) ==
  IF n = 0 THEN 0
  ELSE PagesTotal(n - 1)
       + (IF IsPage(scans[n].response) THEN Len(scans[n].response.Items) ELSE 0)
\* the bulk delete of the current page has returned
BulkOver == AllSettled(task) /\ inflight = {} /\ timers = {}

ItemsRead ==
  UNION {{scans[i].response.Items[j] : j \in DOMAIN scans[i].response.Items} :
         i \in {k \in DOMAIN scans : IsPage(scans[k].response)}}
\* every bulk delete removed the items of its page: no item was read twice
\* and no item read is still stored
DeletesSucceeded ==
  /\ ItemsRead \cap table = {}
  /\ PagesTotal(Len(scans)) = Cardinality(ItemsRead)
\* purgeItems has returned from a table that held items
PurgedNonEmpty ==
  /\ call.name = "purgeItems"
  /\ status = "returned"
  /\ table0 # {}

\* C34: when purgeItems has returned, its last store call is a scan that
\* returned no item: every earlier scan returned a non-empty page, and no
\* scan or batchWrite is in flight. When the last non-empty page carried no
\* cursor that final scan starts from the beginning of the table. Hence a
\* purge of a non-empty table whose deletes removed every page, and which
\* read the whole table as n non-empty pages, issued n + 1 scans: the n
\* non-empty pages, which split the table, and the final empty one.
C34_FinalEmptyScan ==
  (call.name = "purgeItems" /\ status = "returned") =>
    LET n == Len(scans) - 1
    IN  /\ IsPage(scans[n + 1].response)
        /\ Len(scans[n + 1].response.Items) = 0
        /\ \A i \in 1..n : IsPage(scans[i].response)
                           /\ Len(scans[i].response.Items) > 0
        /\ scanning = {} /\ inflight = {} /\ timers = {}
        /\ (n >= 1 /\ ~HasCursor(scans[n].response)) =>
             FromStart(scans[n + 1].options)
        /\ (n >= 1 /\ HasCursor(scans[n].response)) =>
             StartsFrom(scans[n + 1].options, scans[n].response.LastEvaluatedKey)
        /\ (table0 # {} /\ DeletesSucceeded) =>
             /\ n >= 1
             /\ PagesTotal(n) = Cardinality(table0 \ table)
             /\ table = {} => ItemsRead = table0

\* a table of 26 items purged as two pages, of 1 item (with a cursor) and of
\* 25 items (without): the third and last scan starts from the beginning
C34_Witness ==
  /\ PurgedNonEmpty
  /\ DeletesSucceeded
  /\ table = {}
  /\ Len(scans) = 3
  /\ Len(scans[1].response.Items) = 1
  /\ Len(scans[2].response.Items) = 25
  /\ ~HasCursor(scans[2].response)
  /\ FromStart(scans[3].options)
  /\ result = 26

====
